---- MODULE Spec2Model ----
(***************************************************************************)
(* Model of register_user.py: a CLI run reads its request from the         *)
(* environment, inserts a user row in MySQL and publishes a                *)
(* "user_registered" event to NATS JetStream.  Several runs (processes)    *)
(* execute concurrently against one store and one stream; every external   *)
(* call (store statement, broker call) is one atomic step.                 *)
(***************************************************************************)
EXTENDS Integers, Sequences, FiniteSets, TLC

\* ------------------------------------------------------------------ bounds
NumProcs == 2
Procs == 1..NumProcs

\* ------------------------------------------------------------- environment
\* os.getenv gives None for an unset variable; "" is a set-but-empty one.
None == "<None>"

UserVars == <<"USER_NAME", "USER_EMAIL", "CUSTOMER_ID", "CUSTOMER_NAME",
              "ROLE_ID", "ROLE_NAME">>
DbVars == {"DB_HOST", "DB_PORT", "DB_USER", "DB_PASSWORD", "DB_NAME"}
NatsVars == {"NATS_SERVER", "NATS_STREAM", "NATS_SUBJECT", "NATS_USER",
             "NATS_PASSWORD"}
EnvVars == {UserVars[i] : i \in 1..Len(UserVars)} \cup DbVars \cup NatsVars

\* Python truthiness of an optional string
Truthy(v) == v # None /\ v # ""

\* ---------------------------------------------------------------- results
\* A call either returns a value or raises an exception.
NoExc == [type |-> "none", msg |-> ""]
Exc(t, m) == [type |-> t, msg |-> m]
UserRegistrationError(m) == Exc("UserRegistrationError", m)
Return(v) == [raised |-> FALSE, value |-> v, exc |-> NoExc]
Raise(e) == [raised |-> TRUE, value |-> None, exc |-> e]

get_env_var(e, name, required, default) ==
    LET value == IF e[name] = None THEN default ELSE e[name]
    IN IF required /\ ~Truthy(value)
       THEN Raise(UserRegistrationError("Required environment variable is not set"))
       ELSE Return(value)

\* int(): the strings that parse as a port number
NumericStrings == {"3306", "3307"}
int(r) ==
    IF r.raised THEN r
    ELSE IF r.value \in NumericStrings THEN r
    ELSE Raise(Exc("ValueError", "invalid literal for int()"))

\* The first raising result of a left-to-right evaluated argument list
RECURSIVE FirstRaised(_)
FirstRaised(rs) ==
    IF rs = <<>> THEN NoExc
    ELSE IF Head(rs).raised THEN Head(rs).exc
    ELSE FirstRaised(Tail(rs))

get_database_config(e) ==
    FirstRaised(<< get_env_var(e, "DB_HOST", TRUE, None),
                   int(get_env_var(e, "DB_PORT", TRUE, "3306")),
                   get_env_var(e, "DB_USER", TRUE, None),
                   get_env_var(e, "DB_PASSWORD", TRUE, None),
                   get_env_var(e, "DB_NAME", TRUE, None) >>)

\* get_nats_config treating the credentials as optional
get_nats_config_optional_credentials(e) ==
    FirstRaised(<< get_env_var(e, "NATS_SERVER", TRUE, None),
                   get_env_var(e, "NATS_STREAM", TRUE, None),
                   get_env_var(e, "NATS_SUBJECT", TRUE, None),
                   get_env_var(e, "NATS_USER", FALSE, None),
                   get_env_var(e, "NATS_PASSWORD", FALSE, None) >>)

get_nats_config(e) ==
    FirstRaised(<< get_env_var(e, "NATS_SERVER", TRUE, None),
                   get_env_var(e, "NATS_STREAM", TRUE, None),
                   get_env_var(e, "NATS_SUBJECT", TRUE, None),
                   get_env_var(e, "NATS_USER", TRUE, None),
                   get_env_var(e, "NATS_PASSWORD", TRUE, None) >>)

\* ------------------------------------------------------------ store tables
\* Reference tables, never written by this program.
corporate_customers ==
    { [id |-> "c1", name |-> "Acme"],
      [id |-> "c2", name |-> "Twin"],
      [id |-> "c3", name |-> "Twin"] }
user_roles ==
    { [id |-> "r1", role_name |-> "admin"],
      [id |-> "r2", role_name |-> "dual"],
      [id |-> "r3", role_name |-> "dual"] }

\* A row of users that exists before any run starts.
InitialUsers ==
    { [id |-> 0, customer_id |-> "c1", role_id |-> "r1", name |-> "Zoe",
       email |-> "z@x.com", created_at |-> 0] }
NoRow == [id |-> -1]
\* user_id of main before insert_user has returned; identifiers are >= 0
NoUserId == NoRow.id

\* ----------------------------------------------------------------- inputs
BaseEnv ==
    [v \in EnvVars |->
        CASE v = "DB_HOST" -> "db"
          [] v = "DB_PORT" -> None
          [] v = "DB_USER" -> "u"
          [] v = "DB_PASSWORD" -> "pw"
          [] v = "DB_NAME" -> "app"
          [] v = "NATS_SERVER" -> "nats://n"
          [] v = "NATS_STREAM" -> "S"
          [] v = "NATS_SUBJECT" -> "users.registered"
          [] v = "NATS_USER" -> "nu"
          [] v = "NATS_PASSWORD" -> "npw"
          [] OTHER -> None]

With(e, kvs) == [v \in EnvVars |-> IF v \in DOMAIN kvs THEN kvs[v] ELSE e[v]]

Requests ==
    { With(BaseEnv, [USER_NAME |-> "Alice", USER_EMAIL |-> "a@x.com",
                     CUSTOMER_ID |-> "c1", ROLE_ID |-> "r1"]),
      With(BaseEnv, [USER_NAME |-> "Bob", USER_EMAIL |-> "b@x.com",
                     CUSTOMER_NAME |-> "Acme", ROLE_NAME |-> "admin"]),
      With(BaseEnv, [USER_NAME |-> "Carol", USER_EMAIL |-> "z@x.com",
                     CUSTOMER_ID |-> "c1", ROLE_ID |-> "r1"]),
      With(BaseEnv, [USER_NAME |-> "Dave", USER_EMAIL |-> "d@x.com",
                     CUSTOMER_NAME |-> "Nope", ROLE_ID |-> "r1"]),
      With(BaseEnv, [USER_NAME |-> "Erin", USER_EMAIL |-> "e@x.com",
                     CUSTOMER_ID |-> "c9", ROLE_ID |-> "r1"]),
      With(BaseEnv, [USER_NAME |-> "Finn", USER_EMAIL |-> "f@x.com",
                     CUSTOMER_ID |-> "c1", ROLE_ID |-> "r1",
                     NATS_SERVER |-> None]) }

\* A run that stops at configuration: NATS_SERVER is not set
NoBrokerRequest ==
    With(BaseEnv, [USER_NAME |-> "Finn", USER_EMAIL |-> "f@x.com",
                   CUSTOMER_ID |-> "c1", ROLE_ID |-> "r1", NATS_SERVER |-> None])

\* Every combination of set, empty and unset user attributes, with names
\* that match no row, one row and two rows of the reference tables
UserRequests ==
    { With(BaseEnv, [USER_NAME |-> n, USER_EMAIL |-> m, CUSTOMER_ID |-> ci,
                     CUSTOMER_NAME |-> cn, ROLE_ID |-> ri, ROLE_NAME |-> rn]) :
        n \in {None, "", "Alice"}, m \in {None, "a@x.com", "z@x.com"},
        ci \in {None, "", "c1"}, cn \in {None, "Acme", "Twin", "Nope"},
        ri \in {None, "r1"}, rn \in {None, "admin", "dual", "Nope"} }

\* A complete request with one store or broker setting unset, empty or,
\* for the port, replaced
ConfigRequests ==
    LET ok == With(BaseEnv, [USER_NAME |-> "Alice", USER_EMAIL |-> "a@x.com",
                             CUSTOMER_ID |-> "c1", ROLE_ID |-> "r1"])
    IN { [ok EXCEPT ![v] = x] : v \in DbVars \cup NatsVars, x \in {None, ""} }
       \cup { [ok EXCEPT !["DB_PORT"] = x] : x \in {"3307", "x"} }

\* ------------------------------------------------------ reference resolver
\* Any statement sent to the store may fail at the driver/server level.
StoreError == Exc("OperationalError", "store error")
BrokerError == Exc("NatsError", "broker error")

\* One store or broker call issued by a run, with the exception it raised
Call(c, e) == [call |-> c, exc |-> e]

\* A query outcome together with the statements issued to obtain it
Out(r, q) == [res |-> r, calls |-> q]

\* The call record of a lookup statement whose outcome is r: only a store
\* error is raised by the statement itself
Query(c, r) == <<Call(c, IF r.raised /\ r.exc = StoreError THEN StoreError ELSE NoExc)>>

\* lookup_customer_id returning None instead of raising on an empty result
lookup_customer_id_or_none(customer_name) ==
    LET result == {r \in corporate_customers : r.name = customer_name}
    IN {Raise(StoreError)} \cup
       (IF result = {} THEN {Return(None)} ELSE {Return(r.id) : r \in result})

\* fetchone() gives the first row of an unordered result set, or None
lookup_customer_id(customer_name) ==
    LET result == {r \in corporate_customers : r.name = customer_name}
    IN {Raise(StoreError)} \cup
       (IF result = {}
        THEN {Raise(UserRegistrationError("Customer not found"))}
        ELSE {Return(r.id) : r \in result})

\* lookup_role_id returning None instead of raising on an empty result
lookup_role_id_or_none(role_name) ==
    LET result == {r \in user_roles : r.role_name = role_name}
    IN {Raise(StoreError)} \cup
       (IF result = {} THEN {Return(None)} ELSE {Return(r.id) : r \in result})

lookup_role_id(role_name) ==
    LET result == {r \in user_roles : r.role_name = role_name}
    IN {Raise(StoreError)} \cup
       (IF result = {}
        THEN {Raise(UserRegistrationError("Role not found"))}
        ELSE {Return(r.id) : r \in result})

\* the customer lookup run whenever a name is given, id or not
resolve_customer_prefer_name(e) ==
    LET customer_id == get_env_var(e, "CUSTOMER_ID", FALSE, None).value
        customer_name == get_env_var(e, "CUSTOMER_NAME", FALSE, None).value
    IN IF ~Truthy(customer_id) /\ ~Truthy(customer_name)
       THEN {Out(Raise(UserRegistrationError(
                 "Either CUSTOMER_ID or CUSTOMER_NAME must be provided")), <<>>)}
       ELSE IF Truthy(customer_name)
       THEN {Out(r, Query("SELECT corporate_customers", r)) :
                 r \in lookup_customer_id(customer_name)}
       ELSE {Out(Return(customer_id), <<>>)}

\* customer half of get_user_info (lines 148-156)
resolve_customer(e) ==
    LET customer_id == get_env_var(e, "CUSTOMER_ID", FALSE, None).value
        customer_name == get_env_var(e, "CUSTOMER_NAME", FALSE, None).value
    IN IF ~Truthy(customer_id) /\ ~Truthy(customer_name)
       THEN {Out(Raise(UserRegistrationError(
                 "Either CUSTOMER_ID or CUSTOMER_NAME must be provided")), <<>>)}
       ELSE IF Truthy(customer_name) /\ ~Truthy(customer_id)
       THEN {Out(r, Query("SELECT corporate_customers", r)) :
                 r \in lookup_customer_id(customer_name)}
       ELSE {Out(Return(customer_id), <<>>)}

\* role half of get_user_info (lines 158-166)
resolve_role(e) ==
    LET role_id == get_env_var(e, "ROLE_ID", FALSE, None).value
        role_name == get_env_var(e, "ROLE_NAME", FALSE, None).value
    IN IF ~Truthy(role_id) /\ ~Truthy(role_name)
       THEN {Out(Raise(UserRegistrationError(
                 "Either ROLE_ID or ROLE_NAME must be provided")), <<>>)}
       ELSE IF Truthy(role_name) /\ ~Truthy(role_id)
       THEN {Out(r, Query("SELECT user_roles", r)) : r \in lookup_role_id(role_name)}
       ELSE {Out(Return(role_id), <<>>)}

NoUser == [name |-> None, email |-> None, customer_id |-> None, role_id |-> None]

\* The set of possible outcomes of get_user_info for environment e
get_user_info(e) ==
    LET name == get_env_var(e, "USER_NAME", TRUE, None)
        email == get_env_var(e, "USER_EMAIL", TRUE, None)
    IN IF name.raised THEN {Out(name, <<>>)}
       ELSE IF email.raised THEN {Out(email, <<>>)}
       ELSE UNION { IF c.res.raised THEN {c}
                    ELSE { IF r.res.raised
                           THEN Out(r.res, c.calls \o r.calls)
                           ELSE Out(Return([name |-> name.value,
                                            email |-> email.value,
                                            customer_id |-> c.res.value,
                                            role_id |-> r.res.value]),
                                    c.calls \o r.calls)
                           : r \in resolve_role(e) }
                    : c \in resolve_customer(e) }

\* ---------------------------------------------------------- event building
Lower(v) ==
    CASE v = "USER_NAME" -> "user_name"
      [] v = "USER_EMAIL" -> "user_email"
      [] v = "CUSTOMER_ID" -> "customer_id"
      [] v = "CUSTOMER_NAME" -> "customer_name"
      [] v = "ROLE_ID" -> "role_id"
      [] v = "ROLE_NAME" -> "role_name"

\* prepare_event_data testing  value is not None  instead of  value
prepare_event_data_keep_empty(e) ==
    { <<Lower(UserVars[i]), e[UserVars[i]]>> :
        i \in {j \in 1..Len(UserVars) : e[UserVars[j]] # None} }

\* event_data as a set of (key, value) pairs
prepare_event_data(e) ==
    { <<Lower(UserVars[i]), e[UserVars[i]]>> :
        i \in {j \in 1..Len(UserVars) : Truthy(e[UserVars[j]])} }

NoPayload == [event_type |-> "none"]
event_payload(event_data, uid) ==
    [event_type |-> "user_registered", user_id |-> uid, data |-> event_data]

\* ------------------------------------------------------------------- state
VARIABLES
    env,         \* env[p]: the process environment of run p
    pc,          \* pc[p]: position of run p in main
    dbconn,      \* dbconn[p]: "none" | "open" | "closed"
    txn,         \* txn[p]: row inserted by p's open transaction, or NoRow
    user_info,   \* user_info[p]: result of get_user_info
    user_id,     \* user_id[p]: value returned by insert_user
    nc,          \* nc[p]: broker connection "none" | "open" | "closed"
    payload,     \* payload[p]: event_payload built in publish_event
    exc,         \* exc[p]: exception propagating in / reported by main
    calls,       \* calls[p]: store and broker calls issued by run p, in order
    users,       \* committed rows of table users
    stream,      \* events stored (acknowledged) on the JetStream subject
    clock        \* store clock used for created_at

vars == <<env, pc, dbconn, txn, user_info, user_id, nc, payload, exc, calls,
          users, stream, clock>>

Init ==
    /\ env \in [Procs -> Requests]
    /\ pc = [p \in Procs |-> "start"]
    /\ dbconn = [p \in Procs |-> "none"]
    /\ txn = [p \in Procs |-> NoRow]
    /\ user_info = [p \in Procs |-> NoUser]
    /\ user_id = [p \in Procs |-> NoUserId]
    /\ nc = [p \in Procs |-> "none"]
    /\ payload = [p \in Procs |-> NoPayload]
    /\ exc = [p \in Procs |-> NoExc]
    /\ calls = [p \in Procs |-> <<>>]
    /\ users = InitialUsers
    /\ stream = {}
    /\ clock = 0

Set(f, p, v) == [f EXCEPT ![p] = v]
Called(p, c) == Set(calls, p, Append(calls[p], Call(c, NoExc)))
CalledRaising(p, c, e) == Set(calls, p, Append(calls[p], Call(c, e)))

\* ----------------------------------------------------------- main: set-up
\* lines 269-285: read both configurations, then open the store connection
main_connect(p) ==
    /\ pc[p] = "start"
    /\ LET db == get_database_config(env[p])
           cfg == IF db # NoExc THEN db ELSE get_nats_config(env[p])
       IN \/ /\ cfg # NoExc
             /\ exc' = Set(exc, p, cfg)
             /\ pc' = Set(pc, p, "aborted")
             /\ UNCHANGED <<dbconn, calls>>
          \/ /\ cfg = NoExc
             /\ \/ /\ calls' = Called(p, "pymysql.connect")
                   /\ dbconn' = Set(dbconn, p, "open")
                   /\ pc' = Set(pc, p, "get_user_info")
                   /\ UNCHANGED exc
                \/ /\ calls' = CalledRaising(p, "pymysql.connect", StoreError)
                   /\ exc' = Set(exc, p, StoreError)
                   /\ pc' = Set(pc, p, "aborted")
                   /\ UNCHANGED dbconn
    /\ UNCHANGED <<env, txn, user_info, user_id, nc, payload, users, stream, clock>>

\* line 290
main_get_user_info(p) ==
    /\ pc[p] = "get_user_info"
    /\ \E o \in get_user_info(env[p]) :
          /\ calls' = Set(calls, p, calls[p] \o o.calls)
          /\ IF o.res.raised
             THEN /\ exc' = Set(exc, p, o.res.exc)
                  /\ pc' = Set(pc, p, "finally")
                  /\ UNCHANGED user_info
             ELSE /\ user_info' = Set(user_info, p, o.res.value)
                  /\ pc' = Set(pc, p, "INSERT")
                  /\ UNCHANGED exc
    /\ UNCHANGED <<env, dbconn, txn, user_id, nc, payload, users, stream, clock>>

\* ------------------------------------------------------------- insert_user
DuplicateEmailMsg == "Duplicate entry 'x' for key 'users.email'"
ForeignKeyMsg == "Cannot add or update a child row: a foreign key constraint fails"
IntegrityError(m) == Exc("IntegrityError", m)

\* Python's  sub in str(e)  on the messages the store produces
Contains(m, sub) ==
    <<m, sub>> \in { <<DuplicateEmailMsg, "Duplicate entry">>,
                     <<DuplicateEmailMsg, "email">> }

\* the duplicate test looking for a text the store never produces
insert_user_except_misclassify(e) ==
    IF e.type = "IntegrityError"
    THEN [rollback |-> FALSE,
          exc |-> IF Contains(e.msg, "Duplicate key") /\ Contains(e.msg, "email")
                  THEN UserRegistrationError("User with email already exists")
                  ELSE UserRegistrationError("Database integrity error")]
    ELSE [rollback |-> TRUE,
          exc |-> UserRegistrationError("Failed to insert user")]

\* the generic except clause rolling back without re-raising
insert_user_except_swallow(e) ==
    IF e.type = "IntegrityError"
    THEN [rollback |-> FALSE,
          exc |-> IF Contains(e.msg, "Duplicate entry") /\ Contains(e.msg, "email")
                  THEN UserRegistrationError("User with email already exists")
                  ELSE UserRegistrationError("Database integrity error")]
    ELSE [rollback |-> TRUE, exc |-> NoExc]

\* lines 206-212: the exception raised by insert_user for a failure e of one
\* of its statements, and whether connection.rollback() is called first
insert_user_except(e) ==
    IF e.type = "IntegrityError"
    THEN [rollback |-> FALSE,
          exc |-> IF Contains(e.msg, "Duplicate entry") /\ Contains(e.msg, "email")
                  THEN UserRegistrationError("User with email already exists")
                  ELSE UserRegistrationError("Database integrity error")]
    ELSE [rollback |-> TRUE,
          exc |-> UserRegistrationError("Failed to insert user")]

\* insert_user returning the identifier without connection.commit()
after_select_id_no_commit == "nats.connect"

\* line 202: the statement that follows the identifier read
after_select_id == "commit"

\* A statement `call` of insert_user raised e: run the except clauses.
\* rollback() is itself a store call and may raise, replacing the exception.
insert_user_raise(p, call, e) ==
    LET h == insert_user_except(e)
    IN \E rb_raises \in (IF h.rollback THEN BOOLEAN ELSE {FALSE}) :
         LET final == IF rb_raises THEN StoreError ELSE h.exc
         IN /\ calls' = Set(calls, p, calls[p] \o <<Call(call, e)>> \o
                              (IF h.rollback
                               THEN <<Call("rollback",
                                           IF rb_raises THEN StoreError ELSE NoExc)>>
                               ELSE <<>>))
            /\ txn' = Set(txn, p, IF h.rollback /\ ~rb_raises THEN NoRow ELSE txn[p])
            /\ exc' = Set(exc, p, final)
            /\ pc' = Set(pc, p, IF final = NoExc THEN "nats.connect" ELSE "finally")

ForeignKeysHold(u) ==
    /\ u.customer_id \in {c.id : c \in corporate_customers}
    /\ u.role_id \in {r.id : r \in user_roles}

\* store-generated primary key: fresh and unique per inserted row
GeneratedId(p) == p

\* lines 185-190: INSERT INTO users.  The unique key on email makes the
\* statement wait while another open transaction holds a row with the same
\* email, and fail once such a row is committed.
insert_user_INSERT(p) ==
    /\ pc[p] = "INSERT"
    /\ LET u == user_info[p]
           row == [id |-> GeneratedId(p), customer_id |-> u.customer_id,
                   role_id |-> u.role_id, name |-> u.name, email |-> u.email,
                   created_at |-> clock + 1]
       IN \/ /\ \A r \in users : r.email # u.email
             /\ \A q \in Procs : txn[q] # NoRow => txn[q].email # u.email
             /\ ForeignKeysHold(u)
             /\ txn' = Set(txn, p, row)
             /\ clock' = clock + 1
             /\ calls' = Called(p, "INSERT users")
             /\ pc' = Set(pc, p, "LAST_INSERT_ID")
             /\ UNCHANGED exc
          \/ /\ \E r \in users : r.email = u.email
             /\ insert_user_raise(p, "INSERT users", IntegrityError(DuplicateEmailMsg))
             /\ UNCHANGED clock
          \/ /\ ~ForeignKeysHold(u)
             /\ insert_user_raise(p, "INSERT users", IntegrityError(ForeignKeyMsg))
             /\ UNCHANGED clock
          \/ /\ insert_user_raise(p, "INSERT users", StoreError)
             /\ UNCHANGED clock
    /\ UNCHANGED <<env, dbconn, user_info, user_id, nc, payload, users, stream>>

\* line 193: SELECT LAST_INSERT_ID(), result unused
insert_user_LAST_INSERT_ID(p) ==
    /\ pc[p] = "LAST_INSERT_ID"
    /\ \/ /\ calls' = Called(p, "SELECT LAST_INSERT_ID")
          /\ pc' = Set(pc, p, "SELECT id")
          /\ UNCHANGED <<txn, exc>>
       \/ insert_user_raise(p, "SELECT LAST_INSERT_ID", StoreError)
    /\ UNCHANGED <<env, dbconn, user_info, user_id, nc, payload, users, stream, clock>>

\* rows of users a statement of run p sees: committed ones and its own
Visible(p) == users \cup (IF txn[p] = NoRow THEN {} ELSE {txn[p]})

\* the identifier read without its WHERE email = %s restriction
select_id_any_email(rows, email) ==
    {r \in rows : \A o \in rows : o.created_at <= r.created_at}

\* lines 195-199: SELECT id FROM users WHERE email = %s
\*                ORDER BY created_at DESC LIMIT 1; fetchone()
select_id(rows, email) ==
    LET m == {r \in rows : r.email = email}
    IN {r \in m : \A o \in m : o.created_at <= r.created_at}

insert_user_SELECT_id(p) ==
    /\ pc[p] = "SELECT id"
    /\ LET result == select_id(Visible(p), user_info[p].email)
       IN \/ /\ \E r \in result :
                   user_id' = Set(user_id, p, r.id)
             /\ calls' = Called(p, "SELECT users")
             /\ pc' = Set(pc, p, after_select_id)
             /\ UNCHANGED <<txn, exc>>
          \/ /\ result = {}     \* result[0] on None
             /\ insert_user_raise(p, "SELECT users", Exc("TypeError", "not subscriptable"))
             /\ UNCHANGED user_id
          \/ /\ insert_user_raise(p, "SELECT users", StoreError)
             /\ UNCHANGED user_id
    /\ UNCHANGED <<env, dbconn, user_info, nc, payload, users, stream, clock>>

\* insert_user releasing the store connection right after its commit
insert_user_commit_and_close(p) ==
    /\ pc[p] = "commit"
    /\ \/ /\ users' = users \cup (IF txn[p] = NoRow THEN {} ELSE {txn[p]})
          /\ txn' = Set(txn, p, NoRow)
          /\ calls' = Set(calls, p, calls[p] \o
                            <<Call("commit", NoExc), Call("connection.close", NoExc)>>)
          /\ dbconn' = Set(dbconn, p, "closed")
          /\ pc' = Set(pc, p, "nats.connect")
          /\ UNCHANGED exc
       \/ /\ insert_user_raise(p, "commit", StoreError)
          /\ UNCHANGED <<users, dbconn>>
    /\ UNCHANGED <<env, user_info, user_id, nc, payload, stream, clock>>

\* line 202: connection.commit()
insert_user_commit(p) ==
    /\ pc[p] = "commit"
    /\ \/ /\ users' = users \cup (IF txn[p] = NoRow THEN {} ELSE {txn[p]})
          /\ txn' = Set(txn, p, NoRow)
          /\ calls' = Called(p, "commit")
          /\ pc' = Set(pc, p, "nats.connect")
          /\ UNCHANGED exc
       \/ /\ insert_user_raise(p, "commit", StoreError)
          /\ UNCHANGED users
    /\ UNCHANGED <<env, dbconn, user_info, user_id, nc, payload, stream, clock>>

\* ----------------------------------------------------------- publish_event
\* publish_event re-using the message of the write failure
publish_event_except_as_write(e) == UserRegistrationError("Failed to insert user")

\* publish_event logging the failure without re-raising
publish_event_except_swallow(e) == NoExc

\* lines 263-264
publish_event_except(e) == UserRegistrationError("Failed to publish NATS event")

\* lines 298, 241-250: prepare_event_data, nats.connect, build the payload
publish_event_connect(p) ==
    /\ pc[p] = "nats.connect"
    /\ \/ /\ calls' = Called(p, "nats.connect")
          /\ nc' = Set(nc, p, "open")
          /\ payload' = Set(payload, p,
                            event_payload(prepare_event_data(env[p]), user_id[p]))
          /\ pc' = Set(pc, p, "js.publish")
          /\ UNCHANGED exc
       \/ /\ calls' = CalledRaising(p, "nats.connect", BrokerError)
          /\ exc' = Set(exc, p, publish_event_except(BrokerError))
          /\ pc' = Set(pc, p, "finally")
          /\ UNCHANGED <<nc, payload>>
    /\ UNCHANGED <<env, dbconn, txn, user_info, user_id, users, stream, clock>>

\* publish_event trying js.publish again after a failure
publish_event_publish_retry(p) ==
    /\ pc[p] = "js.publish"
    /\ \/ /\ calls' = Called(p, "js.publish")
          /\ stream' = stream \cup {payload[p]}
          /\ pc' = Set(pc, p, "nc.close")
       \/ /\ calls' = CalledRaising(p, "js.publish", BrokerError)
          /\ UNCHANGED <<stream, pc>>
    /\ UNCHANGED <<env, dbconn, txn, user_info, user_id, nc, payload, exc, users, clock>>

\* lines 253-256: js.publish returns once the stream has stored the event
publish_event_publish(p) ==
    /\ pc[p] = "js.publish"
    /\ \/ /\ calls' = Called(p, "js.publish")
          /\ stream' = stream \cup {payload[p]}
          /\ pc' = Set(pc, p, "nc.close")
          /\ UNCHANGED exc
       \/ /\ calls' = CalledRaising(p, "js.publish", BrokerError)
          /\ exc' = Set(exc, p, publish_event_except(BrokerError))
          /\ pc' = Set(pc, p, "finally")
          /\ UNCHANGED stream
    /\ UNCHANGED <<env, dbconn, txn, user_info, user_id, nc, payload, users, clock>>

\* publish_event waiting without limit for a close that failed
publish_event_close_hang(p) ==
    /\ pc[p] = "nc.close"
    /\ \/ /\ calls' = Called(p, "nc.close")
          /\ nc' = Set(nc, p, "closed")
          /\ pc' = Set(pc, p, "finally")
       \/ /\ calls' = CalledRaising(p, "nc.close", BrokerError)
          /\ pc' = Set(pc, p, "nc.close wait")
          /\ UNCHANGED nc
    /\ UNCHANGED <<env, dbconn, txn, user_info, user_id, payload, exc, users, stream, clock>>

\* line 261: nc.close(), still inside the try of publish_event
publish_event_close(p) ==
    /\ pc[p] = "nc.close"
    /\ \/ /\ calls' = Called(p, "nc.close")
          /\ nc' = Set(nc, p, "closed")
          /\ UNCHANGED exc
       \/ /\ calls' = CalledRaising(p, "nc.close", BrokerError)
          /\ exc' = Set(exc, p, publish_event_except(BrokerError))
          /\ UNCHANGED nc
    /\ pc' = Set(pc, p, "finally")
    /\ UNCHANGED <<env, dbconn, txn, user_info, user_id, payload, users, stream, clock>>

\* ---------------------------------------------------------- main: clean-up
\* connection.close() placed at the end of the try body instead of a finally
finally_dbconn_success_only(e) == IF e = NoExc THEN "closed" ELSE "open"

\* lines 307-308: state of the store connection after the finally clause,
\* given the exception (or NoExc) leaving the try block
finally_dbconn(e) == "closed"

\* main compensating a failed publish by deleting the row it wrote
main_finally_undo(p) ==
    /\ pc[p] = "finally"
    /\ calls' = Called(p, "connection.close")
    /\ dbconn' = Set(dbconn, p, finally_dbconn(exc[p]))
    /\ txn' = Set(txn, p, NoRow)
    /\ users' = IF exc[p] = publish_event_except(BrokerError)
                THEN {r \in users : r.id # GeneratedId(p)}
                ELSE users
    /\ pc' = Set(pc, p, IF exc[p] = NoExc THEN "done" ELSE "aborted")
    /\ UNCHANGED <<env, user_info, user_id, nc, payload, exc, stream, clock>>

\* lines 307-317: connection.close() discards an open transaction; then the
\* except clauses of main report the error and exit with status 1
main_finally(p) ==
    /\ pc[p] = "finally"
    /\ calls' = Called(p, "connection.close")
    /\ dbconn' = Set(dbconn, p, finally_dbconn(exc[p]))
    /\ txn' = Set(txn, p, NoRow)
    /\ pc' = Set(pc, p, IF exc[p] = NoExc THEN "done" ELSE "aborted")
    /\ UNCHANGED <<env, user_info, user_id, nc, payload, exc, users, stream, clock>>

\* lines 310-317: what a finished run tells its caller
ExitStatus(p) == IF pc[p] = "aborted" THEN 1 ELSE 0
ReportedKind(p) ==
    IF exc[p].type = "UserRegistrationError" THEN "Registration error"
    ELSE "Unexpected error"

Next ==
    \E p \in Procs :
        \/ main_connect(p)
        \/ main_get_user_info(p)
        \/ insert_user_INSERT(p)
        \/ insert_user_LAST_INSERT_ID(p)
        \/ insert_user_SELECT_id(p)
        \/ insert_user_commit(p)
        \/ publish_event_connect(p)
        \/ publish_event_publish(p)
        \/ publish_event_close(p)
        \/ main_finally(p)

Spec == Init /\ [][Next]_vars

\* The steps of run p.  Each run is a process of its own (line 321), so a
\* run that can take a step eventually takes one.
Step(p) ==
    \/ main_connect(p)
    \/ main_get_user_info(p)
    \/ insert_user_INSERT(p)
    \/ insert_user_LAST_INSERT_ID(p)
    \/ insert_user_SELECT_id(p)
    \/ insert_user_commit(p)
    \/ publish_event_connect(p)
    \/ publish_event_publish(p)
    \/ publish_event_close(p)
    \/ main_finally(p)

FairSpec == Spec /\ \A p \in Procs : WF_vars(Step(p))

\* Runs that get as far as the INSERT: a free email and a taken one.
RaceRequests ==
    { r \in Requests : r["USER_NAME"] \in {"Alice", "Carol"} }

InitRace ==
    /\ env \in [Procs -> RaceRequests]
    /\ pc = [p \in Procs |-> "start"]
    /\ dbconn = [p \in Procs |-> "none"]
    /\ txn = [p \in Procs |-> NoRow]
    /\ user_info = [p \in Procs |-> NoUser]
    /\ user_id = [p \in Procs |-> NoUserId]
    /\ nc = [p \in Procs |-> "none"]
    /\ payload = [p \in Procs |-> NoPayload]
    /\ exc = [p \in Procs |-> NoExc]
    /\ calls = [p \in Procs |-> <<>>]
    /\ users = InitialUsers
    /\ stream = {}
    /\ clock = 0

FairSpecRace == InitRace /\ [][Next]_vars /\ \A p \in Procs : WF_vars(Step(p))

\* One run over the whole input space; the other runs stop at configuration.
InitInputs ==
    /\ env \in {[p \in Procs |-> IF p = 1 THEN r ELSE NoBrokerRequest] :
                   r \in UserRequests \cup ConfigRequests \cup {NoBrokerRequest}}
    /\ pc = [p \in Procs |-> "start"]
    /\ dbconn = [p \in Procs |-> "none"]
    /\ txn = [p \in Procs |-> NoRow]
    /\ user_info = [p \in Procs |-> NoUser]
    /\ user_id = [p \in Procs |-> NoUserId]
    /\ nc = [p \in Procs |-> "none"]
    /\ payload = [p \in Procs |-> NoPayload]
    /\ exc = [p \in Procs |-> NoExc]
    /\ calls = [p \in Procs |-> <<>>]
    /\ users = InitialUsers
    /\ stream = {}
    /\ clock = 0

SpecInputs == InitInputs /\ [][Next]_vars

TypeOK ==
    /\ pc \in [Procs -> {"start", "get_user_info", "INSERT", "LAST_INSERT_ID",
                         "SELECT id", "commit", "nats.connect", "js.publish",
                         "nc.close", "finally", "done", "aborted"}]
    /\ dbconn \in [Procs -> {"none", "open", "closed"}]
    /\ nc \in [Procs -> {"none", "open", "closed"}]
    /\ clock \in 0..NumProcs

\* ------------------------------------------------------- derived predicates
Issued(p, c) == \E i \in DOMAIN calls[p] : calls[p][i].call = c
Succeeded(p, c) == \E i \in DOMAIN calls[p] : calls[p][i] = Call(c, NoExc)
RaisedIn(p, c) ==
    \E i \in DOMAIN calls[p] : calls[p][i].call = c /\ calls[p][i].exc # NoExc
Position(p, c) == CHOOSE i \in DOMAIN calls[p] : calls[p][i].call = c

WriteCalls == {"INSERT users", "SELECT LAST_INSERT_ID", "SELECT users", "commit"}
BrokerCalls == {"nats.connect", "js.publish", "nc.close"}
WriteFailed(p) == \E c \in WriteCalls : RaisedIn(p, c)
Finished(p) == pc[p] \in {"done", "aborted"}
OwnRows(p) == {r \in users : r.id = GeneratedId(p)}
PublishFailed == UserRegistrationError("Failed to publish NATS event")
DuplicateUser == UserRegistrationError("User with email already exists")

\* ------------------------------------------------------------------ claims
\* C1: the broker call begins only after the user row is committed: whenever
\* a run is at or past nats.connect, and for every event on the stream, the
\* row carrying that user id is a committed row of users.
PublishOnlyAfterCommit ==
    /\ \A p \in Procs :
          (pc[p] \in BrokerCalls \/ \E c \in BrokerCalls : Issued(p, c))
             => /\ Succeeded(p, "commit")
                /\ txn[p] = NoRow
                /\ \E r \in users : r.id = user_id[p]
    /\ \A ev \in stream : \E r \in users : r.id = ev.user_id

PublishOnlyAfterCommitWitness ==
    \E p \in Procs :
        /\ Succeeded(p, "js.publish")
        /\ \E ev \in stream : ev.user_id = user_id[p] /\ OwnRows(p) # {}

\* C2: two runs with the same email never leave two rows for it: at most one
\* commits; a run whose INSERT meets the committed row fails with the
\* duplicate-user error, adds no row and attempts no publish.
SameEmailOneRow ==
    /\ \A r1, r2 \in users : r1.email = r2.email => r1 = r2
    /\ \A p, q \in Procs :
          (p # q /\ env[p]["USER_EMAIL"] = env[q]["USER_EMAIL"])
             => ~(Succeeded(p, "commit") /\ Succeeded(q, "commit"))
    /\ \A p \in Procs :
          (\E i \in DOMAIN calls[p] :
               calls[p][i] = Call("INSERT users", IntegrityError(DuplicateEmailMsg)))
             => /\ exc[p] = DuplicateUser
                /\ pc[p] \in {"finally", "aborted"}
                /\ OwnRows(p) = {} /\ txn[p] = NoRow
                /\ payload[p] = NoPayload
                /\ \A c \in BrokerCalls : ~Issued(p, c)

SameEmailOneRowWitness ==
    \E p, q \in Procs :
        /\ p # q /\ env[p]["USER_EMAIL"] = env[q]["USER_EMAIL"]
        /\ Succeeded(q, "commit") /\ OwnRows(q) # {}
        /\ pc[p] = "aborted" /\ exc[p] = DuplicateUser
        /\ \A r \in users : r.email = env[p]["USER_EMAIL"] => r.id = GeneratedId(q)

\* C3: once a statement of the Write step has failed, the run is on its way
\* to Aborted, no row of this run is committed, no event payload is built and
\* no broker call is issued.
WriteFailureLeavesNothing ==
    \A p \in Procs :
        WriteFailed(p)
           => /\ pc[p] \in {"finally", "aborted"}
              /\ exc[p] # NoExc
              /\ OwnRows(p) = {}
              /\ (pc[p] = "aborted" => txn[p] = NoRow)
              /\ payload[p] = NoPayload
              /\ \A c \in BrokerCalls : ~Issued(p, c)

WriteFailureLeavesNothingWitness ==
    \E p \in Procs :
        /\ pc[p] = "aborted"
        /\ RaisedIn(p, "commit")
        /\ Succeeded(p, "INSERT users")

\* C4 (as stated): commit is issued only after INSERT and the identifier
\* read succeeded, and every failure of the INSERT or of the identifier read,
\* integrity violations included, has rollback called before it is reported.
RollbackOnEveryWriteFailure ==
    \A p \in Procs :
        /\ Issued(p, "commit")
              => /\ Succeeded(p, "INSERT users") /\ Succeeded(p, "SELECT users")
                 /\ Position(p, "INSERT users") < Position(p, "commit")
                 /\ Position(p, "SELECT users") < Position(p, "commit")
        /\ \A c \in {"INSERT users", "SELECT LAST_INSERT_ID", "SELECT users"} :
              RaisedIn(p, c)
                 => /\ Issued(p, "rollback")
                    /\ Position(p, c) < Position(p, "rollback")

\* C5 (as stated): a run that reports a publish failure has its row
\* committed and no event carrying its user id is on the stream.
PublishFailureMeansNoEvent ==
    \A p \in Procs :
        (pc[p] = "aborted" /\ exc[p] = PublishFailed)
           => /\ OwnRows(p) # {}
              /\ \A ev \in stream : ev.user_id # user_id[p]

\* C6: when Publish fails after a successful Write, the row of that Write
\* stays in users with the values written, nothing is rolled back, rows of
\* other origin are untouched and users holds exactly one row per committed
\* Write on top of the rows it started with.
PublishFailureKeepsRow ==
    \A p \in Procs :
        (exc[p] = PublishFailed /\ pc[p] \in {"finally", "aborted"})
           => /\ Cardinality(OwnRows(p)) = 1
              /\ \A r \in OwnRows(p) :
                    /\ r.email = user_info[p].email
                    /\ r.name = user_info[p].name
                    /\ r.customer_id = user_info[p].customer_id
                    /\ r.role_id = user_info[p].role_id
              /\ ~Issued(p, "rollback")
              /\ InitialUsers \subseteq users
              /\ Cardinality(users) = Cardinality(InitialUsers) +
                    Cardinality({q \in Procs : Succeeded(q, "commit")})

PublishFailureKeepsRowWitness ==
    \E p \in Procs :
        /\ pc[p] = "aborted" /\ exc[p] = PublishFailed
        /\ RaisedIn(p, "nats.connect")
        /\ OwnRows(p) # {}
        /\ Cardinality(users) = Cardinality(InitialUsers) + 1

\* C7: the identifier returned by a successful Write is the id of the row
\* this run inserted; the event payload carries exactly that id; and a run
\* that committed its row does not finish without a publish attempt.
PublishUsesWrittenId ==
    \A p \in Procs :
        /\ Succeeded(p, "SELECT users")
              => /\ user_id[p] = GeneratedId(p)
                 /\ \A r \in Visible(p) :
                       r.id = user_id[p] => r.email = user_info[p].email
        /\ payload[p] # NoPayload
              => /\ payload[p].user_id = user_id[p]
                 /\ \E r \in OwnRows(p) : r.id = payload[p].user_id
        /\ (pc[p] \in {"finally", "done", "aborted"} /\ Succeeded(p, "commit"))
              => Issued(p, "nats.connect")
        /\ \A c \in BrokerCalls : Issued(p, c) => Succeeded(p, "commit")

PublishUsesWrittenIdWitness ==
    \E p, q \in Procs :
        /\ p # q
        /\ Succeeded(q, "commit") /\ Succeeded(p, "js.publish")
        /\ \E r \in OwnRows(q) : \E o \in OwnRows(p) : o.created_at < r.created_at
        /\ payload[p].user_id = GeneratedId(p)

\* C8 (as stated): once publish_event has left, whether by return or by
\* exception, a broker connection it opened is closed.
BrokerConnectionClosed ==
    \A p \in Procs :
        pc[p] \in {"finally", "done", "aborted"} => nc[p] # "open"

\* C9: a finished run has closed the store connection it opened, whatever
\* way it left the try block.
StoreConnectionClosed ==
    \A p \in Procs :
        Finished(p)
           => /\ dbconn[p] # "open"
              /\ Succeeded(p, "pymysql.connect")
                    => /\ dbconn[p] = "closed"
                       /\ calls[p][Len(calls[p])] = Call("connection.close", NoExc)

StoreConnectionClosedWitness ==
    \E p, q \in Procs :
        /\ pc[p] = "done" /\ dbconn[p] = "closed"
        /\ pc[q] = "aborted" /\ dbconn[q] = "closed"
        /\ exc[q] # NoExc

\* C10 (as stated): while a broker connect or publish call is in progress
\* the store connection has already been released.
StoreReleasedDuringBrokerCall ==
    \A p \in Procs :
        pc[p] \in {"nats.connect", "js.publish"} => dbconn[p] = "closed"

\* C10 (amended): while a broker connect or publish call is in progress the
\* store connection is still open, with its write already committed; it is
\* closed only after publish_event has returned or raised.
StoreHeldDuringBrokerCall ==
    \A p \in Procs :
        /\ pc[p] \in {"nats.connect", "js.publish", "nc.close"}
              => /\ dbconn[p] = "open"
                 /\ ~Issued(p, "connection.close")
                 /\ Succeeded(p, "commit") /\ txn[p] = NoRow
        /\ (Issued(p, "connection.close") /\ Issued(p, "nats.connect"))
              => Position(p, "nats.connect") < Position(p, "connection.close")

StoreHeldDuringBrokerCallWitness ==
    \E p \in Procs :
        /\ pc[p] = "js.publish" /\ nc[p] = "open" /\ dbconn[p] = "open"
        /\ OwnRows(p) # {}

\* ------------------------------------------- derived predicates on requests
CustomerMatches(e) == {r \in corporate_customers : r.name = e["CUSTOMER_NAME"]}
RoleMatches(e) == {r \in user_roles : r.role_name = e["ROLE_NAME"]}
CustomerByName(e) == ~Truthy(e["CUSTOMER_ID"]) /\ Truthy(e["CUSTOMER_NAME"])
RoleByName(e) == ~Truthy(e["ROLE_ID"]) /\ Truthy(e["ROLE_NAME"])
Unresolvable(e) ==
    \/ ~Truthy(e["CUSTOMER_ID"]) /\ (~Truthy(e["CUSTOMER_NAME"]) \/ CustomerMatches(e) = {})
    \/ ~Truthy(e["ROLE_ID"]) /\ (~Truthy(e["ROLE_NAME"]) \/ RoleMatches(e) = {})
CustomerNotFound == UserRegistrationError("Customer not found")
RoleNotFound == UserRegistrationError("Role not found")

\* the lookup statement of a reference returned and gave an identifier
CustomerResolved(p) ==
    Succeeded(p, "SELECT corporate_customers") /\ exc[p] # CustomerNotFound
RoleResolved(p) ==
    Succeeded(p, "SELECT user_roles") /\ exc[p] # RoleNotFound

\* C11: a run whose customer or role reference has neither id nor name, or
\* whose name matches no row, never gets past Resolve: no INSERT, commit or
\* broker call is issued, nothing is pending and users keeps its rows.
ResolveFailureBeforeMutation ==
    \A p \in Procs :
        Unresolvable(env[p])
           => /\ pc[p] \in {"start", "get_user_info", "finally", "aborted"}
              /\ (pc[p] \in {"finally", "aborted"} => exc[p] # NoExc)
              /\ \A c \in WriteCalls \cup BrokerCalls \cup {"rollback"} : ~Issued(p, c)
              /\ txn[p] = NoRow /\ OwnRows(p) = {}
              /\ user_info[p] = NoUser /\ payload[p] = NoPayload
              /\ users = InitialUsers

ResolveFailureBeforeMutationWitness ==
    \E p \in Procs :
        /\ pc[p] = "aborted" /\ exc[p] = CustomerNotFound
        /\ Succeeded(p, "SELECT corporate_customers")
        /\ dbconn[p] = "closed"

\* C12 (as stated): a reference given by name only resolves if and only if
\* exactly one row matches the name, and otherwise fails as not found.
NameResolvesIffOneMatch ==
    \A p \in Procs :
        /\ (CustomerByName(env[p]) /\ Succeeded(p, "SELECT corporate_customers"))
              => /\ CustomerResolved(p) <=> Cardinality(CustomerMatches(env[p])) = 1
                 /\ ~CustomerResolved(p) => exc[p] = CustomerNotFound
        /\ (RoleByName(env[p]) /\ Succeeded(p, "SELECT user_roles"))
              => /\ RoleResolved(p) <=> Cardinality(RoleMatches(env[p])) = 1
                 /\ ~RoleResolved(p) => exc[p] = RoleNotFound

\* C12 (amended): a reference given by name only, whose lookup statement
\* returns, resolves if and only if at least one row matches the name, to
\* the id of one of the matching rows; with no matching row it fails as not
\* found.
NameResolvesIffSomeMatch ==
    \A p \in Procs :
        /\ (CustomerByName(env[p]) /\ Succeeded(p, "SELECT corporate_customers"))
              => /\ CustomerResolved(p) <=> CustomerMatches(env[p]) # {}
                 /\ ~CustomerResolved(p) => exc[p] = CustomerNotFound
                 /\ user_info[p] # NoUser
                       => user_info[p].customer_id \in {r.id : r \in CustomerMatches(env[p])}
        /\ (RoleByName(env[p]) /\ Succeeded(p, "SELECT user_roles"))
              => /\ RoleResolved(p) <=> RoleMatches(env[p]) # {}
                 /\ ~RoleResolved(p) => exc[p] = RoleNotFound
                 /\ user_info[p] # NoUser
                       => user_info[p].role_id \in {r.id : r \in RoleMatches(env[p])}

NameResolvesIffSomeMatchWitness ==
    \E p \in Procs :
        /\ env[p]["CUSTOMER_NAME"] = "Twin" /\ env[p]["ROLE_NAME"] = "dual"
        /\ user_info[p] # NoUser
        /\ user_info[p].customer_id = "c3" /\ user_info[p].role_id = "r2"

\* C13: a run given both ids issues no lookup and writes exactly those ids,
\* whether or not names are given too; a lookup is issued for a reference
\* only when its id is absent and its name present.
IdsBypassLookup ==
    \A p \in Procs :
        LET e == env[p]
        IN /\ (Truthy(e["CUSTOMER_ID"]) /\ Truthy(e["ROLE_ID"]))
                 => /\ ~Issued(p, "SELECT corporate_customers")
                    /\ ~Issued(p, "SELECT user_roles")
                    /\ \A r \in {user_info[p], txn[p]} \cup OwnRows(p) :
                          (r # NoUser /\ r # NoRow)
                             => /\ r.customer_id = e["CUSTOMER_ID"]
                                /\ r.role_id = e["ROLE_ID"]
           /\ Issued(p, "SELECT corporate_customers") => CustomerByName(e)
           /\ Issued(p, "SELECT user_roles") => RoleByName(e)

IdsBypassLookupWitness ==
    \E p \in Procs :
        /\ Truthy(env[p]["CUSTOMER_ID"]) /\ Truthy(env[p]["ROLE_ID"])
        /\ env[p]["CUSTOMER_NAME"] = "Twin" /\ env[p]["ROLE_NAME"] = "Nope"
        /\ Succeeded(p, "commit")
        /\ \E r \in OwnRows(p) : r.customer_id = "c1" /\ r.role_id = "r1"

\* what main prints and returns for a finished run (lines 310-317)
Report(p) == <<ReportedKind(p), exc[p].msg, ExitStatus(p)>>
PublishFailureReport == <<"Registration error", "Failed to publish NATS event", 1>>

Stage(c) ==
    CASE c = "pymysql.connect" -> 0
      [] c \in {"SELECT corporate_customers", "SELECT user_roles"} -> 1
      [] c \in WriteCalls \cup {"rollback"} -> 2
      [] c \in BrokerCalls -> 3
      [] OTHER -> 4
Count(p, c) == Cardinality({i \in DOMAIN calls[p] : calls[p][i].call = c})

\* C15: the calls of a run follow the order Resolve, Write, Publish, every
\* statement is issued at most once (one INSERT, one publish at most), and
\* after a call has failed only rollback and connection.close follow.
LinearSteps ==
    \A p \in Procs :
        /\ \A i \in DOMAIN calls[p] : Count(p, calls[p][i].call) = 1
        /\ \A i, j \in DOMAIN calls[p] :
              i < j => Stage(calls[p][i].call) <= Stage(calls[p][j].call)
        /\ \A i, j \in DOMAIN calls[p] :
              (i < j /\ calls[p][i].exc # NoExc)
                 => calls[p][j].call \in {"rollback", "connection.close"}

LinearStepsWitness ==
    \E p \in Procs :
        /\ pc[p] = "aborted"
        /\ RaisedIn(p, "js.publish")
        /\ Count(p, "INSERT users") = 1 /\ Count(p, "js.publish") = 1

\* the two terminal states of a run and what they yield (lines 305, 310-317)
EndedDone(p) ==
    IF pc[p] = "done"
    THEN exc[p] = NoExc /\ ExitStatus(p) = 0 /\ user_id[p] = GeneratedId(p)
    ELSE FALSE
EndedAborted(p) == pc[p] = "aborted" /\ exc[p] # NoExc /\ ExitStatus(p) = 1

\* C16: provided every call returns or raises, every run ends, and stays, in
\* exactly one of Done, with the identifier of its row as result, and
\* Aborted, with exit status 1; no run stays in Resolve, Write or Publish.
EveryRunTerminates ==
    \A p \in Procs : <>[]EndedDone(p) \/ <>[]EndedAborted(p)

EveryRunTerminatesWitness ==
    /\ \A p \in Procs : Finished(p)
    /\ \E p \in Procs : pc[p] = "done" /\ user_id[p] = GeneratedId(p)
    /\ \E p \in Procs : pc[p] = "aborted" /\ ExitStatus(p) = 1

\* the key each user attribute is to have in the event data
EventKey ==
    [USER_NAME |-> "user_name", USER_EMAIL |-> "user_email",
     CUSTOMER_ID |-> "customer_id", CUSTOMER_NAME |-> "customer_name",
     ROLE_ID |-> "role_id", ROLE_NAME |-> "role_name"]
Supplied(e) == {v \in DOMAIN EventKey : Truthy(e[v])}

\* C17: for every combination of supplied and absent user attributes the
\* event data holds exactly the supplied non-empty attributes, each under
\* its lower-cased key with its value, and the payload and the stored event
\* carry that data.
EventDataIsSupplied ==
    \A p \in Procs :
        LET d == prepare_event_data(env[p])
        IN /\ \A v \in Supplied(env[p]) : <<EventKey[v], env[p][v]>> \in d
           /\ \A x \in d : \E v \in Supplied(env[p]) : x = <<EventKey[v], env[p][v]>>
           /\ Cardinality(d) = Cardinality(Supplied(env[p]))
           /\ payload[p] # NoPayload => payload[p].data = d
           /\ \A ev \in stream : ev.user_id = GeneratedId(p) => ev.data = d

EventDataIsSuppliedWitness ==
    \E p \in Procs : \E ev \in stream :
        /\ ev.user_id = GeneratedId(p)
        /\ env[p]["CUSTOMER_ID"] = "" /\ env[p]["CUSTOMER_NAME"] = "Twin"
        /\ env[p]["ROLE_ID"] = "r1" /\ env[p]["ROLE_NAME"] = None
        /\ ev.data = { <<"user_name", "Alice">>, <<"user_email", "a@x.com">>,
                       <<"customer_name", "Twin">>, <<"role_id", "r1">> }

\* C18: a run that reports success (line 305, then exit status 0) has its
\* row committed and its event, carrying the id of that row, acknowledged
\* and on the stream.
SuccessMeansRowAndEvent ==
    \A p \in Procs :
        (pc[p] = "done" \/ (pc[p] = "finally" /\ exc[p] = NoExc))
           => /\ Succeeded(p, "commit") /\ Succeeded(p, "js.publish")
              /\ \E r \in OwnRows(p) : r.id = user_id[p]
              /\ \E ev \in stream : ev.user_id = user_id[p] /\ ev = payload[p]
              /\ pc[p] = "done" => ExitStatus(p) = 0

SuccessMeansRowAndEventWitness ==
    \E p \in Procs :
        /\ pc[p] = "done" /\ nc[p] = "closed" /\ dbconn[p] = "closed"
        /\ \E ev \in stream : ev.user_id = GeneratedId(p)

\* a required store or broker setting is unset or empty
MissingSetting(e) ==
    \/ \E v \in (DbVars \ {"DB_PORT"}) \cup NatsVars : ~Truthy(e[v])
    \/ e["DB_PORT"] = ""

====
